---- MODULE Spec2Model ----
(***************************************************************************)
(* fdllm (src/main.rs): collect the text of configured files and           *)
(* directories, optionally prefixed by an `eza --tree` listing, and put    *)
(* the result on the clipboard.                                            *)
(*                                                                         *)
(* Strings that the program inspects (paths, file names, extensions) are   *)
(* sequences of one-character strings, so that replacen, contains and      *)
(* Path::extension are computed character by character.  The fixed pieces  *)
(* of the format! templates and file contents are opaque tokens of the     *)
(* same sequences.  Option<T> is a sequence of length 0 (None) or 1.       *)
(***************************************************************************)
EXTENDS Integers, Sequences, FiniteSets, TLC

VARIABLES
    home,                    \* env HOME: Option<String>
    cfg_file,                \* state of $HOME/fdllm/config.toml on disk
    disk_config,             \* the Config the file on disk parses to
    args,                    \* env::args()
    fs,                      \* the filesystem: absolute path -> node
    tree_env,                \* how the external `eza` behaves on this machine
    pc,                      \* position in main / terminal location
    config,                  \* Option<Config>: result of load_config
    files_to_copy,
    directories_to_process,
    project_config,          \* Option<Project>
    dir_idx,                 \* position of `for dir in &directories_to_process`
    file_idx,                \* position of `for file in files_to_copy`
    tree_output,             \* Option<String>: result of run_tree_command
    combined_content,
    exit_code,               \* process exit status, NoExit while running
    clipboard,               \* Option<String>: clipboard contents set by the run
    walks,                   \* history: directories handed to collect_files_from_directory
    tree_calls,              \* history: eza invocations <<path, tree_level>>
    file_reads,              \* history: paths handed to fs::read_to_string in the file loop
    clip_accesses,           \* history: number of ClipboardContext::new() calls
    arg,                     \* input of a stand-alone call (expand_tilde / collect)
    ret                      \* Option<result> of that call

vars == <<home, cfg_file, disk_config, args, fs, tree_env, pc, config,
          files_to_copy, directories_to_process, project_config, dir_idx,
          file_idx, tree_output, combined_content, exit_code, clipboard,
          walks, tree_calls, file_reads, clip_accesses, arg, ret>>

None == <<>>
Some(x) == <<x>>
IsSome(o) == Len(o) = 1
Unwrap(o) == o[1]

\* ------------------------------------------------------------------------
\* Bounds of the model.
MaxPathLen == 3        \* longest input string of a stand-alone expand_tilde call
MaxEntries == 2        \* most entries in the walked directory
MaxSubEntries == 1     \* most entries in one of its subdirectories

\* ------------------------------------------------------------------------
\* String primitives (std::str).

\* s[i..] starts with t
StartsAt(s, t, i) ==
    /\ i + Len(t) - 1 <= Len(s)
    /\ \A k \in 1..Len(t) : s[i + k - 1] = t[k]

\* str::contains
Contains(s, t) == \E i \in 1..(Len(s) + 1) : StartsAt(s, t, i)

\* str::find, 0 when absent
Find(s, t) ==
    IF Contains(s, t)
    THEN CHOOSE i \in 1..(Len(s) + 1) :
            /\ StartsAt(s, t, i)
            /\ \A j \in 1..(i - 1) : ~StartsAt(s, t, j)
    ELSE 0

\* str::replace: every occurrence of the one-character pattern
RECURSIVE ReplaceAll(_, _, _)
ReplaceAll(s, c, to) ==
    IF s = <<>> THEN <<>>
    ELSE (IF Head(s) = c THEN to ELSE <<Head(s)>>) \o ReplaceAll(Tail(s), c, to)

\* str::replacen(from, to, 1): the first occurrence only
Replacen1(s, from, to) ==
    LET i == Find(s, from) IN
    IF i = 0 THEN s
    ELSE SubSeq(s, 1, i - 1) \o to \o SubSeq(s, i + Len(from), Len(s))

Tilde == <<"~">>
Slash == <<"/">>
Dot == <<".">>

\* fn expand_tilde with replace instead of replacen(.., 1)
expand_tilde_all(h, path) ==
    IF IsSome(h) THEN ReplaceAll(path, "~", Unwrap(h)) ELSE path

\* fn expand_tilde(path); h is env::var("HOME")
expand_tilde(h, path) ==
    IF IsSome(h) THEN Replacen1(path, Tilde, Unwrap(h)) ELSE path

\* ------------------------------------------------------------------------
\* The filesystem.  A node is a regular file or a directory; a directory
\* lists its entry names in the order read_dir yields them.

FileNode(content, readable) ==
    [kind |-> "file", readable |-> readable, content |-> content, entries |-> <<>>]
DirNode(entries, readable) ==
    [kind |-> "dir", readable |-> readable, content |-> <<>>, entries |-> entries]

Cwd == <<"/", "h">>

\* components of a path between slashes, empty ones dropped (a//b is a/b)
RECURSIVE Components(_, _)
Components(p, cur) ==
    IF p = <<>> THEN (IF cur = <<>> THEN <<>> ELSE <<cur>>)
    ELSE IF Head(p) = "/"
         THEN (IF cur = <<>> THEN <<>> ELSE <<cur>>) \o Components(Tail(p), <<>>)
         ELSE Components(Tail(p), Append(cur, Head(p)))

RECURSIVE JoinAbs(_)
JoinAbs(cs) == IF cs = <<>> THEN <<>> ELSE Slash \o Head(cs) \o JoinAbs(Tail(cs))

\* the absolute path the OS resolves a path string to
Resolve(p) ==
    IF p # <<>> /\ Head(p) = "/" THEN JoinAbs(Components(p, <<>>))
    ELSE JoinAbs(Components(Cwd \o Slash \o p, <<>>))

\* Path::exists, Path::is_file, Path::is_dir
exists(f, p) == p # <<>> /\ Resolve(p) \in DOMAIN f
is_file(f, p) == exists(f, p) /\ f[Resolve(p)].kind = "file"
is_dir(f, p) == exists(f, p) /\ f[Resolve(p)].kind = "dir"
\* fs::read_to_string succeeds
can_read(f, p) == is_file(f, p) /\ f[Resolve(p)].readable
read_to_string(f, p) == f[Resolve(p)].content

\* fs::read_dir: Some(entry names) or None when the directory cannot be listed
read_dir(f, p) ==
    IF is_dir(f, p) /\ f[Resolve(p)].readable THEN Some(f[Resolve(p)].entries) ELSE None

\* Path::join for one more component
join(p, name) ==
    IF p # <<>> /\ p[Len(p)] = "/" THEN p \o name ELSE p \o Slash \o name

\* Path::extension of a file name: the part after the last dot, None when
\* there is no dot or the only dot is the first character
LastDot(name) ==
    IF \E i \in 1..Len(name) : name[i] = "."
    THEN CHOOSE i \in 1..Len(name) :
            name[i] = "." /\ \A j \in (i + 1)..Len(name) : name[j] # "."
    ELSE 0

extension(name) ==
    LET i == LastDot(name) IN
    IF i <= 1 THEN None ELSE Some(SubSeq(name, i + 1, Len(name)))

excluded_files ==
    {<<".","D","S","_","S","t","o","r","e">>,
     <<".","g","i","t">>,
     <<".","g","i","t","i","g","n","o","r","e">>,
     <<"t","a","r","g","e","t">>}

valid_extensions ==
    {<<".","r","s">>, <<".","t","o","m","l">>, <<".","j","s","o","n">>,
     <<".","y","a","m","l">>, <<".","y","m","l">>, <<".","m","d">>,
     <<".","t","x","t">>, <<".","c">>, <<".","h">>, <<".","c","p","p">>,
     <<".","h","p","p">>, <<".","j","s">>, <<".","t","s">>, <<".","p","y">>,
     <<".","g","o">>, <<".","s","h">>, <<".","c","s","v">>, <<".","l","o","g">>}

\* the denylist test comparing whole names instead of substrings
is_excluded_exact(file_name) == file_name \in excluded_files

\* the denylist test of the walk
is_excluded(file_name) == \E e \in excluded_files : Contains(file_name, e)

\* the allowlist test of the walk
has_valid_extension(file_name) ==
    /\ IsSome(extension(file_name))
    /\ (Dot \o Unwrap(extension(file_name))) \in valid_extensions

\* fn collect_files_from_directory(dir_path)
RECURSIVE collect_files_from_directory(_, _)
RECURSIVE collect_entries(_, _, _)
collect_entries(f, dir_path, entries) ==
    IF entries = <<>> THEN <<>>
    ELSE LET file_name == Head(entries)
             path == join(dir_path, file_name)
             here ==
                IF is_excluded(file_name) THEN <<>>
                ELSE IF is_file(f, path)
                     THEN (IF has_valid_extension(file_name) THEN <<path>> ELSE <<>>)
                     ELSE IF is_dir(f, path)
                          THEN collect_files_from_directory(f, path)
                          ELSE <<>>
         IN here \o collect_entries(f, dir_path, Tail(entries))

collect_files_from_directory(f, dir_path) ==
    LET entries == read_dir(f, dir_path) IN
    IF IsSome(entries) THEN collect_entries(f, dir_path, Unwrap(entries)) ELSE <<>>

\* ------------------------------------------------------------------------
\* Configuration (struct Config, Profile, Project).

Project(path, tree_level) == [path |-> path, tree_level |-> tree_level]
Selection(files, directories, project) ==
    [files |-> files, directories |-> directories, project |-> project]
Config(legacy, profiles) ==
    [files |-> legacy.files, directories |-> legacy.directories,
     project |-> legacy.project, profiles |-> profiles]

\* the default_config literal written by get_config_path
DefaultConfig ==
    [files |-> Some(<< <<"~","/","D","e","s","k","t","o","p","/","m","y","_","t",
                        "e","s","t","_","f","i","l","e",".","t","x","t">> >>),
     directories |-> Some(<< <<"~","/","e","x","a","m","p","l","e","_","d","i","r">> >>),
     project |-> Some(Project(<<>>, Some(3))),
     profiles |-> Some(
        [n \in {"project1", "project2"} |->
            IF n = "project1"
            THEN Selection(
                    Some(<< <<"~","/","p","r","o","j","e","c","t","1","/","m","a","i","n",".","r","s">> >>),
                    Some(<< <<"~","/","p","r","o","j","e","c","t","1","/","s","r","c">> >>),
                    Some(Project(<<"~","/","p","r","o","j","e","c","t","1">>, Some(2))))
            ELSE Selection(
                    Some(<< <<"~","/","p","r","o","j","e","c","t","2","/","a","p","p",".","j","s">> >>),
                    Some(<< <<"~","/","p","r","o","j","e","c","t","2","/","l","i","b">> >>),
                    Some(Project(<<"~","/","p","r","o","j","e","c","t","2">>, Some(3))))])]

\* process exit statuses
NoExit == -1
ExitOk == 0
ExitFail == 1
ExitPanic == 101

\* ------------------------------------------------------------------------
\* The machines the program is run on.

HomeDir == <<"/", "h">>
WalkRoot == <<"/", "d">>

n_a_rs == <<"a", ".", "r", "s">>
n_b_exe == <<"b", ".", "e", "x", "e">>
n_c_rs == <<"c", ".", "r", "s">>
n_git == <<".", "g", "i", "t">>
n_gitx_rs == <<"x", ".", "g", "i", "t", "x", ".", "r", "s">>
n_target == <<"t", "a", "r", "g", "e", "t">>
n_tilde_md == <<"~", "n", ".", "m", "d">>
n_dot_txt == <<".", "t", "x", "t">>
n_s == <<"s">>
n_bad_rs == <<"0xFF", ".", "r", "s">>  \* a name that is not valid UTF-8
n_x_txt == <<"x", ".", "t", "x", "t">>
n_u_txt == <<"u", ".", "t", "x", "t">>
n_p == <<"p">>
n_m_rs == <<"m", ".", "r", "s">>

\* every file holds its own text
ContentOf(name) == IF name = n_x_txt THEN <<"hello">>
                   ELSE IF name = n_m_rs THEN <<>>
                   ELSE <<"text of ">> \o name

\* an entry of the walked directory: a file, or a directory of files
FileDesc(name, readable) ==
    [name |-> name, kind |-> "file", readable |-> readable, sub |-> <<>>]
DirDesc(name, readable, sub) ==
    [name |-> name, kind |-> "dir", readable |-> readable, sub |-> sub]

\* sequences without repetition of at most n elements of S
RECURSIVE DistinctSeqs(_, _)
DistinctSeqs(S, n) ==
    IF n = 0 THEN {<<>>}
    ELSE LET prev == DistinctSeqs(S, n - 1) IN
         prev \cup {Append(s, x) : <<s, x>> \in
                        {sx \in prev \X S :
                            /\ Len(sx[1]) = n - 1
                            /\ \A i \in 1..Len(sx[1]) : sx[1][i] # sx[2]}}

SubListings == DistinctSeqs({n_c_rs, n_b_exe}, MaxSubEntries)

WalkFileNames == {n_a_rs, n_b_exe, n_gitx_rs, n_tilde_md, n_dot_txt, n_s}
WalkDirNames == {n_git, n_s, n_target}

WalkDescs ==
    {FileDesc(n, TRUE) : n \in WalkFileNames}
    \cup {DirDesc(dr[1], dr[2], dr[3]) : dr \in WalkDirNames \X BOOLEAN \X SubListings}

\* listings of a directory: entries with distinct names
Listings(descs) ==
    {l \in DistinctSeqs(descs, MaxEntries) :
        \A i, j \in 1..Len(l) : i # j => l[i].name # l[j].name}

RECURSIVE NamesOf(_)
NamesOf(l) == IF l = <<>> THEN <<>> ELSE <<Head(l).name>> \o NamesOf(Tail(l))

RECURSIVE SubFiles(_, _)
SubFiles(dir, names) ==
    IF names = <<>> THEN <<>>
    ELSE (join(dir, Head(names)) :> FileNode(ContentOf(Head(names)), TRUE))
         @@ SubFiles(dir, Tail(names))

RECURSIVE EntryNodes(_, _)
EntryNodes(root, l) ==
    IF l = <<>> THEN <<>>
    ELSE LET d == Head(l)
             p == join(root, d.name)
         IN (IF d.kind = "file"
             THEN p :> FileNode(ContentOf(d.name), d.readable)
             ELSE (p :> DirNode(d.sub, d.readable)) @@ SubFiles(p, d.sub))
            @@ EntryNodes(root, Tail(l))

\* the filesystem holding directory root with listing l
TreeFS(root, readable, l) ==
    (root :> DirNode(NamesOf(l), readable)) @@ EntryNodes(root, l)

\* the user's home: a file, an unreadable file, a project directory
HomeFS ==
    (HomeDir :> DirNode(<<n_x_txt, n_u_txt, n_p>>, TRUE))
    @@ (join(HomeDir, n_x_txt) :> FileNode(ContentOf(n_x_txt), TRUE))
    @@ (join(HomeDir, n_u_txt) :> FileNode(ContentOf(n_u_txt), FALSE))
    @@ (join(HomeDir, n_p) :> DirNode(<<n_m_rs>>, TRUE))
    @@ (join(join(HomeDir, n_p), n_m_rs) :> FileNode(ContentOf(n_m_rs), TRUE))

WalkFilesystems ==
    {TreeFS(WalkRoot, r, l) : <<r, l>> \in BOOLEAN \X Listings(WalkDescs)}

\* the entries of the walked directory on the machines main is run on
MainDescs ==
    {FileDesc(n_a_rs, TRUE), FileDesc(n_tilde_md, TRUE),
     FileDesc(n_b_exe, TRUE), FileDesc(n_bad_rs, TRUE),
     DirDesc(n_git, TRUE, <<n_c_rs>>),
     DirDesc(n_s, TRUE, <<n_c_rs>>)}

MainFilesystems ==
    {HomeFS @@ TreeFS(WalkRoot, TRUE, l) : l \in Listings(MainDescs)}

P_x == <<"~", "/">> \o n_x_txt         \* ~/x.txt, a readable file
P_u == <<"~", "/">> \o n_u_txt         \* ~/u.txt, an unreadable file
P_p == <<"~", "/">> \o n_p             \* ~/p, a directory
P_rel == n_x_txt                       \* x.txt, relative to the working directory
P_no == <<"/", "n", "o">>              \* names nothing
P_d == WalkRoot

FilesOpts == {None, Some(<<>>), Some(<<P_no, P_x>>), Some(<<P_u, P_p, P_rel>>)}
DirsOpts == {None, Some(<<P_d>>), Some(<<P_no, P_d, P_p>>), Some(<<P_p, P_d>>)}
ProjectOpts == {None, Some(Project(P_p, Some(2))), Some(Project(P_no, None))}

Selections ==
    {Selection(t[1], t[2], t[3]) : t \in FilesOpts \X DirsOpts \X ProjectOpts}

LegacyOnly == Selection(Some(<<P_x>>), None, None)
OtherProfile == Selection(Some(<<P_u>>), Some(<<P_no>>), Some(Project(P_d, None)))

\* what config.toml can parse to
Configs ==
    {DefaultConfig}
    \cup {Config(s, None) : s \in Selections}
    \cup {Config(LegacyOnly,
                 Some([n \in {"p1", "p2"} |-> IF n = "p1" THEN s ELSE OtherProfile])) :
            s \in Selections}

ArgLists == {<<"fdllm">>, <<"fdllm", "p1">>, <<"fdllm", "nope">>}
Homes == {None, Some(HomeDir)}
CfgFileStates == {"absent", "unreadable", "invalid", "ok"}
TreeEnvs == {"spawn_fail", "nonzero", "ok"}

\* ------------------------------------------------------------------------
\* main

Running == {"get_config_path", "load_config", "select", "dirs", "tree", "files", "clipboard"}
Panics == {"panic_home", "panic_create_dir", "panic_write", "panic_read", "panic_parse"}
Exits == {"exit_profile_missing", "exit_no_profiles", "exit_no_files", "exit_empty",
          "exit_clip_new", "exit_clip_set"}
Terminated == pc \in Panics \cup Exits \cup {"exit_ok"}

Init ==
    /\ home \in Homes
    /\ cfg_file \in CfgFileStates
    /\ disk_config \in (IF cfg_file = "ok" THEN Configs ELSE {DefaultConfig})
    /\ args \in ArgLists
    /\ fs \in MainFilesystems
    /\ tree_env \in TreeEnvs
    /\ pc = "get_config_path"
    /\ config = None
    /\ files_to_copy = <<>>
    /\ directories_to_process = <<>>
    /\ project_config = None
    /\ dir_idx = 1
    /\ file_idx = 1
    /\ tree_output = None
    /\ combined_content = <<>>
    /\ exit_code = NoExit
    /\ clipboard = None
    /\ walks = <<>>
    /\ tree_calls = <<>>
    /\ file_reads = <<>>
    /\ clip_accesses = 0
    /\ arg = <<>>
    /\ ret = None

\* process::exit(code) / panic at location loc
Exit(loc, code) == pc' = loc /\ exit_code' = code

\* fn get_config_path
GetConfigPath ==
    /\ pc = "get_config_path"
    /\ IF ~IsSome(home)
       THEN Exit("panic_home", ExitPanic) /\ UNCHANGED <<cfg_file, disk_config>>
       ELSE IF cfg_file = "absent"
            THEN \E io \in {"ok", "create_dir_fails", "write_fails"} :
                    IF io = "ok"
                    THEN /\ cfg_file' = "ok"
                         /\ disk_config' = DefaultConfig
                         /\ pc' = "load_config"
                         /\ UNCHANGED exit_code
                    ELSE /\ Exit(IF io = "create_dir_fails" THEN "panic_create_dir"
                                 ELSE "panic_write", ExitPanic)
                         /\ UNCHANGED <<cfg_file, disk_config>>
            ELSE pc' = "load_config" /\ UNCHANGED <<exit_code, cfg_file, disk_config>>
    /\ UNCHANGED <<home, args, fs, tree_env, config, files_to_copy,
                   directories_to_process, project_config, dir_idx, file_idx,
                   tree_output, combined_content, clipboard, walks, tree_calls,
                   file_reads, clip_accesses, arg, ret>>

\* fn load_config
LoadConfig ==
    /\ pc = "load_config"
    /\ IF cfg_file = "unreadable" THEN Exit("panic_read", ExitPanic) /\ UNCHANGED config
       ELSE IF cfg_file = "invalid" THEN Exit("panic_parse", ExitPanic) /\ UNCHANGED config
       ELSE config' = Some(disk_config) /\ pc' = "select" /\ UNCHANGED exit_code
    /\ UNCHANGED <<home, cfg_file, disk_config, args, fs, tree_env, files_to_copy,
                   directories_to_process, project_config, dir_idx, file_idx,
                   tree_output, combined_content, clipboard, walks, tree_calls,
                   file_reads, clip_accesses, arg, ret>>

\* let profile_name = if args.len() > 1 { Some(args[1]) } else { None }
profile_name(a) == IF Len(a) > 1 THEN Some(a[2]) ELSE None

\* Option<Vec<String>> extended into an empty Vec
OrEmpty(o) == IF IsSome(o) THEN Unwrap(o) ELSE <<>>

\* the selection that also keeps the legacy fields when a profile is chosen
selection_merged(cfg, name) ==
    IF IsSome(name)
    THEN IF IsSome(cfg.profiles) /\ Unwrap(name) \in DOMAIN Unwrap(cfg.profiles)
         THEN LET profile == Unwrap(cfg.profiles)[Unwrap(name)] IN
              Some(Selection(Some(OrEmpty(cfg.files) \o OrEmpty(profile.files)),
                             Some(OrEmpty(cfg.directories) \o OrEmpty(profile.directories)),
                             IF IsSome(profile.project) THEN profile.project
                             ELSE cfg.project))
         ELSE None
    ELSE Some(Selection(cfg.files, cfg.directories, cfg.project))

\* the selection that falls back to the legacy fields when the profile is unknown
selection_fallback(cfg, name) ==
    IF /\ IsSome(name)
       /\ IsSome(cfg.profiles)
       /\ Unwrap(name) \in DOMAIN Unwrap(cfg.profiles)
    THEN Some(Unwrap(cfg.profiles)[Unwrap(name)])
    ELSE Some(Selection(cfg.files, cfg.directories, cfg.project))

\* the fields the run uses: a profile's, or the legacy ones; None when the
\* named profile does not exist
selection(cfg, name) ==
    IF IsSome(name)
    THEN IF IsSome(cfg.profiles) /\ Unwrap(name) \in DOMAIN Unwrap(cfg.profiles)
         THEN Some(Unwrap(cfg.profiles)[Unwrap(name)])
         ELSE None
    ELSE Some(Selection(cfg.files, cfg.directories, cfg.project))

\* main: "Determine which profile to use"
SelectProfile ==
    /\ pc = "select"
    /\ LET cfg == Unwrap(config)
           sel == selection(cfg, profile_name(args))
       IN IF IsSome(sel)
          THEN /\ files_to_copy' = OrEmpty(Unwrap(sel).files)
               /\ directories_to_process' = OrEmpty(Unwrap(sel).directories)
               /\ project_config' = Unwrap(sel).project
               /\ pc' = "dirs"
               /\ UNCHANGED exit_code
          ELSE /\ Exit(IF IsSome(cfg.profiles) THEN "exit_profile_missing"
                       ELSE "exit_no_profiles", ExitFail)
               /\ UNCHANGED <<files_to_copy, directories_to_process, project_config>>
    /\ UNCHANGED <<home, cfg_file, disk_config, args, fs, tree_env, config, dir_idx,
                   file_idx, tree_output, combined_content, clipboard, walks,
                   tree_calls, file_reads, clip_accesses, arg, ret>>

\* OsStr::to_string_lossy / Path::display: a byte that is not UTF-8 becomes U+FFFD
RECURSIVE to_string_lossy(_)
to_string_lossy(p) ==
    IF p = <<>> THEN <<>>
    ELSE <<IF Head(p) = "0xFF" THEN "U+FFFD" ELSE Head(p)>> \o to_string_lossy(Tail(p))

RECURSIVE lossy_all(_)
lossy_all(ps) ==
    IF ps = <<>> THEN <<>> ELSE <<to_string_lossy(Head(ps))>> \o lossy_all(Tail(ps))

\* what one directory of the config adds to files_to_copy
directory_files(h, f, dir) ==
    LET dir_path == expand_tilde(h, dir) IN
    IF exists(f, dir_path) /\ is_dir(f, dir_path)
    THEN lossy_all(collect_files_from_directory(f, dir_path))
    ELSE <<>>

\* one pass of the loop that puts the files of a directory first
ProcessDirectoryPrepend ==
    /\ pc = "dirs"
    /\ dir_idx <= Len(directories_to_process)
    /\ LET dir == directories_to_process[dir_idx]
           dir_path == expand_tilde(home, dir)
       IN /\ files_to_copy' = directory_files(home, fs, dir) \o files_to_copy
          /\ walks' = IF exists(fs, dir_path) /\ is_dir(fs, dir_path)
                      THEN Append(walks, dir_path) ELSE walks
    /\ dir_idx' = dir_idx + 1
    /\ UNCHANGED <<home, cfg_file, disk_config, args, fs, tree_env, pc, config,
                   directories_to_process, project_config, file_idx, tree_output,
                   combined_content, exit_code, clipboard, tree_calls, file_reads,
                   clip_accesses, arg, ret>>

\* main: one pass of `for dir in &directories_to_process`
ProcessDirectory ==
    /\ pc = "dirs"
    /\ dir_idx <= Len(directories_to_process)
    /\ LET dir == directories_to_process[dir_idx]
           dir_path == expand_tilde(home, dir)
       IN /\ files_to_copy' = files_to_copy \o directory_files(home, fs, dir)
          /\ walks' = IF exists(fs, dir_path) /\ is_dir(fs, dir_path)
                      THEN Append(walks, dir_path) ELSE walks
    /\ dir_idx' = dir_idx + 1
    /\ UNCHANGED <<home, cfg_file, disk_config, args, fs, tree_env, pc, config,
                   directories_to_process, project_config, file_idx, tree_output,
                   combined_content, exit_code, clipboard, tree_calls, file_reads,
                   clip_accesses, arg, ret>>

\* main: if files_to_copy.is_empty() { exit(1) }
CheckFiles ==
    /\ pc = "dirs"
    /\ dir_idx > Len(directories_to_process)
    /\ IF files_to_copy = <<>>
       THEN Exit("exit_no_files", ExitFail)
       ELSE pc' = "tree" /\ UNCHANGED exit_code
    /\ UNCHANGED <<home, cfg_file, disk_config, args, fs, tree_env, config,
                   files_to_copy, directories_to_process, project_config, dir_idx,
                   file_idx, tree_output, combined_content, clipboard, walks,
                   tree_calls, file_reads, clip_accesses, arg, ret>>

\* what eza prints for a path
TreeText(project_path, tree_level) == <<"listing of ">> \o project_path

\* fn run_tree_command: stdout on success, None when eza cannot be started
\* or exits non-zero
run_tree_command(env, project_path, tree_level) ==
    IF env = "ok" THEN Some(TreeText(project_path, tree_level)) ELSE None

\* the tree step where a failing eza ends the run
AddProjectTreeFatal ==
    /\ pc = "tree"
    /\ IF IsSome(project_config) /\ exists(fs, expand_tilde(home, Unwrap(project_config).path))
       THEN LET project == Unwrap(project_config)
                project_path == expand_tilde(home, project.path)
                out == run_tree_command(tree_env, to_string_lossy(project_path),
                                        project.tree_level)
            IN /\ tree_calls' = Append(tree_calls,
                                       <<to_string_lossy(project_path), project.tree_level>>)
               /\ tree_output' = out
               /\ IF IsSome(out)
                  THEN /\ combined_content' =
                            <<"# NOTE: Project Tree: ">> \o to_string_lossy(project_path)
                            \o <<"\n">> \o Unwrap(out) \o <<"\n">>
                       /\ pc' = "files"
                       /\ UNCHANGED exit_code
                  ELSE Exit("exit_empty", ExitFail) /\ UNCHANGED combined_content
       ELSE pc' = "files" /\ UNCHANGED <<tree_calls, tree_output, combined_content, exit_code>>
    /\ UNCHANGED <<home, cfg_file, disk_config, args, fs, tree_env, config,
                   files_to_copy, directories_to_process, project_config, dir_idx,
                   file_idx, clipboard, walks, file_reads, clip_accesses, arg, ret>>

\* main: "Add project tree if specified"
AddProjectTree ==
    /\ pc = "tree"
    /\ IF IsSome(project_config)
       THEN LET project == Unwrap(project_config)
                project_path == expand_tilde(home, project.path)
            IN IF exists(fs, project_path)
               THEN LET out == run_tree_command(tree_env, to_string_lossy(project_path),
                                                project.tree_level)
                    IN /\ tree_calls' = Append(tree_calls,
                                               <<to_string_lossy(project_path), project.tree_level>>)
                       /\ tree_output' = out
                       /\ combined_content' =
                            IF IsSome(out)
                            THEN <<"# NOTE: Project Tree: ">> \o to_string_lossy(project_path)
                                 \o <<"\n">> \o Unwrap(out) \o <<"\n">>
                            ELSE <<>>
               ELSE UNCHANGED <<tree_calls, tree_output, combined_content>>
       ELSE UNCHANGED <<tree_calls, tree_output, combined_content>>
    /\ pc' = "files"
    /\ UNCHANGED <<home, cfg_file, disk_config, args, fs, tree_env, config,
                   files_to_copy, directories_to_process, project_config, dir_idx,
                   file_idx, exit_code, clipboard, walks, file_reads, clip_accesses,
                   arg, ret>>

\* the section of a file whose header names the expanded path
file_section_expanded(h, f, file) ==
    LET file_path == expand_tilde(h, file) IN
    IF exists(f, file_path) /\ is_file(f, file_path) /\ can_read(f, file_path)
    THEN <<"# NOTE: ">> \o to_string_lossy(file_path) \o <<":\n">>
         \o read_to_string(f, file_path) \o <<"\n">>
    ELSE <<>>

\* what one entry of files_to_copy adds to combined_content
file_section(h, f, file) ==
    LET file_path == expand_tilde(h, file) IN
    IF exists(f, file_path) /\ is_file(f, file_path) /\ can_read(f, file_path)
    THEN <<"# NOTE: ">> \o file \o <<":\n">> \o read_to_string(f, file_path) \o <<"\n">>
    ELSE <<>>

\* main: one pass of `for file in files_to_copy`
ProcessFile ==
    /\ pc = "files"
    /\ file_idx <= Len(files_to_copy)
    /\ LET file == files_to_copy[file_idx]
           file_path == expand_tilde(home, file)
       IN /\ combined_content' = combined_content \o file_section(home, fs, file)
          /\ file_reads' = IF exists(fs, file_path) /\ is_file(fs, file_path)
                           THEN Append(file_reads, file_path) ELSE file_reads
    /\ file_idx' = file_idx + 1
    /\ UNCHANGED <<home, cfg_file, disk_config, args, fs, tree_env, pc, config,
                   files_to_copy, directories_to_process, project_config, dir_idx,
                   tree_output, exit_code, clipboard, walks, tree_calls,
                   clip_accesses, arg, ret>>

\* the check that lets an empty result through
CheckContentSkipped ==
    /\ pc = "files"
    /\ file_idx > Len(files_to_copy)
    /\ pc' = "clipboard"
    /\ UNCHANGED <<home, cfg_file, disk_config, args, fs, tree_env, config,
                   files_to_copy, directories_to_process, project_config, dir_idx,
                   file_idx, tree_output, combined_content, exit_code, clipboard,
                   walks, tree_calls, file_reads, clip_accesses, arg, ret>>

\* main: if combined_content.is_empty() { exit(1) }
CheckContent ==
    /\ pc = "files"
    /\ file_idx > Len(files_to_copy)
    /\ IF combined_content = <<>>
       THEN Exit("exit_empty", ExitFail)
       ELSE pc' = "clipboard" /\ UNCHANGED exit_code
    /\ UNCHANGED <<home, cfg_file, disk_config, args, fs, tree_env, config,
                   files_to_copy, directories_to_process, project_config, dir_idx,
                   file_idx, tree_output, combined_content, clipboard, walks,
                   tree_calls, file_reads, clip_accesses, arg, ret>>

\* the clipboard step that drops the result of set_contents
CopyToClipboardIgnoringSet ==
    /\ pc = "clipboard"
    /\ clip_accesses' = clip_accesses + 1
    /\ \E os \in {"ok", "new_fails", "set_fails"} :
          IF os = "new_fails" THEN Exit("exit_clip_new", ExitFail) /\ UNCHANGED clipboard
          ELSE IF os = "set_fails" THEN Exit("exit_clip_set", ExitOk) /\ UNCHANGED clipboard
          ELSE clipboard' = Some(combined_content) /\ Exit("exit_ok", ExitOk)
    /\ UNCHANGED <<home, cfg_file, disk_config, args, fs, tree_env, config,
                   files_to_copy, directories_to_process, project_config, dir_idx,
                   file_idx, tree_output, combined_content, walks, tree_calls,
                   file_reads, arg, ret>>

\* main: "Copy to clipboard"
CopyToClipboard ==
    /\ pc = "clipboard"
    /\ clip_accesses' = clip_accesses + 1
    /\ \E os \in {"ok", "new_fails", "set_fails"} :
          IF os = "new_fails" THEN Exit("exit_clip_new", ExitFail) /\ UNCHANGED clipboard
          ELSE IF os = "set_fails" THEN Exit("exit_clip_set", ExitFail) /\ UNCHANGED clipboard
          ELSE clipboard' = Some(combined_content) /\ Exit("exit_ok", ExitOk)
    /\ UNCHANGED <<home, cfg_file, disk_config, args, fs, tree_env, config,
                   files_to_copy, directories_to_process, project_config, dir_idx,
                   file_idx, tree_output, combined_content, walks, tree_calls,
                   file_reads, arg, ret>>

Next ==
    \/ GetConfigPath
    \/ LoadConfig
    \/ SelectProfile
    \/ ProcessDirectory
    \/ CheckFiles
    \/ AddProjectTree
    \/ ProcessFile
    \/ CheckContent
    \/ CopyToClipboard

Spec == Init /\ [][Next]_vars

\* ------------------------------------------------------------------------
\* Stand-alone calls of the two pure functions, on inputs drawn from bounded
\* sets.

Idle ==
    /\ cfg_file = "ok"
    /\ disk_config = DefaultConfig
    /\ args = <<"fdllm">>
    /\ tree_env = "ok"
    /\ config = None
    /\ files_to_copy = <<>>
    /\ directories_to_process = <<>>
    /\ project_config = None
    /\ dir_idx = 1
    /\ file_idx = 1
    /\ tree_output = None
    /\ combined_content = <<>>
    /\ exit_code = NoExit
    /\ clipboard = None
    /\ walks = <<>>
    /\ tree_calls = <<>>
    /\ file_reads = <<>>
    /\ clip_accesses = 0
    /\ ret = None

Return(v) ==
    /\ ret' = Some(v)
    /\ pc' = "returned"
    /\ UNCHANGED <<home, cfg_file, disk_config, args, fs, tree_env, config,
                   files_to_copy, directories_to_process, project_config, dir_idx,
                   file_idx, tree_output, combined_content, exit_code, clipboard,
                   walks, tree_calls, file_reads, clip_accesses, arg>>

\* strings over S of length at most n
RECURSIVE Strings(_, _)
Strings(S, n) ==
    IF n = 0 THEN {<<>>}
    ELSE LET prev == Strings(S, n - 1) IN
         prev \cup {Append(s, c) : <<s, c>> \in {sc \in prev \X S : Len(sc[1]) = n - 1}}

PathChars == {"~", "/", "a"}
ExpandHomes == {None, Some(HomeDir), Some(<<>>), Some(<<"~">>), Some(<<"/", "~", "h">>)}

InitExpand ==
    /\ Idle
    /\ pc = "call_expand_tilde"
    /\ home \in ExpandHomes
    /\ fs = HomeFS
    /\ arg \in Strings(PathChars, MaxPathLen)

CallExpandTilde ==
    /\ pc = "call_expand_tilde"
    /\ Return(expand_tilde(home, arg))

NextExpand == CallExpandTilde

SpecExpand == InitExpand /\ [][NextExpand]_vars

InitCollect ==
    /\ Idle
    /\ pc = "call_collect"
    /\ home = Some(HomeDir)
    /\ fs \in WalkFilesystems
    /\ arg \in {p \in DOMAIN fs : fs[p].kind = "dir"}

CallCollect ==
    /\ pc = "call_collect"
    /\ Return(collect_files_from_directory(fs, arg))

NextCollect == CallCollect

SpecCollect == InitCollect /\ [][NextCollect]_vars

\* ------------------------------------------------------------------------
\* Shared vocabulary of the properties.

Range(s) == {s[i] : i \in 1..Len(s)}
NoDuplicates(s) == \A i, j \in 1..Len(s) : i # j => s[i] # s[j]

\* ------------------------------------------------------------------------
\* C7  Tilde expansion.  With HOME set, a path that begins with `~` comes back
\* as HOME followed by the rest of the path, byte for byte (later `~` kept);
\* a path without `~` comes back unchanged; with HOME unset every path comes
\* back unchanged.
C7_TildeExpansion ==
    pc = "returned" =>
        LET out == Unwrap(ret) IN
        /\ (IsSome(home) /\ arg # <<>> /\ Head(arg) = "~")
              => out = Unwrap(home) \o Tail(arg)
        /\ (\A i \in 1..Len(arg) : arg[i] # "~") => out = arg
        /\ ~IsSome(home) => out = arg

\* a path beginning with `~` and holding a second one has been expanded
C7_Witness ==
    /\ pc = "returned"
    /\ home = Some(HomeDir)
    /\ arg = <<"~", "/", "~">>
    /\ Unwrap(ret) = <<"/", "h", "/", "~">>

\* ------------------------------------------------------------------------
\* C2  Directory collection.

\* the names on the way from dir down to p, p's own name last
NamesBelow(dir, p) == Components(SubSeq(p, Len(dir) + 1, Len(p)), <<>>)
IsUnder(dir, p) == Len(p) > Len(dir) + 1 /\ StartsAt(p, dir \o Slash, 1)

DenylistHit(name) ==
    \/ Contains(name, <<".","D","S","_","S","t","o","r","e">>)
    \/ Contains(name, <<".","g","i","t">>)
    \/ Contains(name, <<".","g","i","t","i","g","n","o","r","e">>)
    \/ Contains(name, <<"t","a","r","g","e","t">>)

\* the regular files under dir the two filters admit
Admitted(f, dir) ==
    {p \in DOMAIN f :
        /\ f[p].kind = "file"
        /\ IsUnder(dir, p)
        /\ \A n \in Range(NamesBelow(dir, p)) : ~DenylistHit(n)
        /\ LET names == NamesBelow(dir, p) IN has_valid_extension(names[Len(names)])}

\* every directory from dir down to the one holding p can be listed
Listable(f, dir, p) ==
    LET names == NamesBelow(dir, p) IN
    \A k \in 0..(Len(names) - 1) :
        IsSome(read_dir(f, dir \o JoinAbs(SubSeq(names, 1, k))))

\* C2 as specified: collect(dir) returns exactly the regular files under dir
\* whose own name and ancestor names below dir miss the denylist and whose
\* extension is in the allowlist.
C2_CollectExactlyAdmitted ==
    pc = "returned" =>
        /\ Range(Unwrap(ret)) = Admitted(fs, arg)
        /\ NoDuplicates(Unwrap(ret))

\* C2 amended: collect(dir) returns exactly those admitted files that are
\* reached through directories that can be listed; a directory that cannot
\* be listed counts as empty.
C2_CollectAdmittedListable ==
    pc = "returned" =>
        /\ Range(Unwrap(ret)) = {p \in Admitted(fs, arg) : Listable(fs, arg, p)}
        /\ NoDuplicates(Unwrap(ret))

\* a walk that kept a file and dropped one by extension, and skipped .git
C2_Witness ==
    /\ pc = "returned"
    /\ arg = WalkRoot
    /\ fs[WalkRoot].entries = <<n_git, n_a_rs>>
    /\ join(join(WalkRoot, n_git), n_c_rs) \in DOMAIN fs
    /\ Unwrap(ret) = <<join(WalkRoot, n_a_rs)>>

\* ------------------------------------------------------------------------
\* Vocabulary of the properties of a run.

\* the run got past the choice of profile / past the directory loop / past
\* the file loop
Selected == pc \in {"dirs", "tree", "files", "clipboard", "exit_no_files",
                    "exit_empty", "exit_clip_new", "exit_clip_set", "exit_ok"}
Resolved == Selected /\ dir_idx > Len(directories_to_process)
Assembling == pc \in {"files", "clipboard", "exit_empty", "exit_clip_new",
                      "exit_clip_set", "exit_ok"}
Assembled == Assembling /\ file_idx > Len(files_to_copy)

GivenProfile == Len(args) > 1
ProfileKnown ==
    /\ IsSome(Unwrap(config).profiles)
    /\ args[2] \in DOMAIN Unwrap(Unwrap(config).profiles)

\* the fields of the one selection the command line names
ActiveFiles ==
    IF GivenProfile THEN OrEmpty(Unwrap(Unwrap(config).profiles)[args[2]].files)
    ELSE OrEmpty(Unwrap(config).files)
ActiveDirectories ==
    IF GivenProfile THEN OrEmpty(Unwrap(Unwrap(config).profiles)[args[2]].directories)
    ELSE OrEmpty(Unwrap(config).directories)
ActiveProject ==
    IF GivenProfile THEN Unwrap(Unwrap(config).profiles)[args[2]].project
    ELSE Unwrap(config).project

\* the expanded path names a regular file whose text can be read
ReadableFile(file) ==
    LET q == Resolve(expand_tilde(home, file)) IN
    /\ expand_tilde(home, file) # <<>>
    /\ q \in DOMAIN fs
    /\ fs[q].kind = "file"
    /\ fs[q].readable

\* header naming `file` as written, then the text of the file it expands to
SectionFor(file) ==
    <<"# NOTE: ">> \o file \o <<":\n">>
    \o fs[Resolve(expand_tilde(home, file))].content \o <<"\n">>

RECURSIVE SectionsFor(_)
SectionsFor(files) ==
    IF files = <<>> THEN <<>>
    ELSE (IF ReadableFile(Head(files)) THEN SectionFor(Head(files)) ELSE <<>>)
         \o SectionsFor(Tail(files))

TreeSection ==
    IF IsSome(tree_output)
    THEN <<"# NOTE: Project Tree: ">> \o expand_tilde(home, Unwrap(project_config).path)
         \o <<"\n">> \o Unwrap(tree_output) \o <<"\n">>
    ELSE <<>>

\* ------------------------------------------------------------------------
\* C1  Assembly.  Once the file loop is over, the assembled text is the tree
\* section (when a tree was rendered) followed, for each entry of the file
\* list in order whose expanded path is a readable regular file, by a header
\* holding the entry as written, the file's text and a newline; every other
\* entry adds nothing.  The same holds of the entries handled so far while
\* the loop runs.
C1_Assembly ==
    Assembling =>
        combined_content =
            TreeSection \o SectionsFor(SubSeq(files_to_copy, 1, file_idx - 1))

\* a tree, a missing file and ~/x.txt have been assembled
C1_Witness ==
    /\ Assembled
    /\ IsSome(tree_output)
    /\ files_to_copy = <<P_no, P_x>>
    /\ combined_content =
         TreeSection \o <<"# NOTE: ">> \o P_x \o <<":\n", "hello", "\n">>

\* ------------------------------------------------------------------------
\* C9  Order of the resolved file set and of the sections.

\* what the walk of each directory of a list yields, list order kept
RECURSIVE Discovered(_)
Discovered(dirs) ==
    IF dirs = <<>> THEN <<>>
    ELSE LET dir_path == expand_tilde(home, Head(dirs)) IN
         (IF is_dir(fs, dir_path)
          THEN lossy_all(collect_files_from_directory(fs, dir_path)) ELSE <<>>)
         \o Discovered(Tail(dirs))

\* the paths the file headers of a text name, in text order
RECURSIVE HeaderPaths(_, _, _)
HeaderPaths(text, inHeader, cur) ==
    IF text = <<>> THEN <<>>
    ELSE IF inHeader
         THEN IF Head(text) = ":\n"
              THEN <<cur>> \o HeaderPaths(Tail(text), FALSE, <<>>)
              ELSE HeaderPaths(Tail(text), TRUE, Append(cur, Head(text)))
         ELSE HeaderPaths(Tail(text), Head(text) = "# NOTE: ", <<>>)

\* C9: the resolved file set is the active selection's explicit entries in
\* config order, then what each configured directory yields, directories in
\* config order; the file sections of the output follow that order.
C9_ResolvedOrder ==
    /\ Selected =>
          files_to_copy =
              ActiveFiles \o Discovered(SubSeq(directories_to_process, 1, dir_idx - 1))
    /\ Assembling =>
          HeaderPaths(combined_content, FALSE, <<>>) =
              SelectSeq(SubSeq(files_to_copy, 1, file_idx - 1), ReadableFile)

\* explicit files, then two directories that both yield files, all assembled
C9_Witness ==
    /\ Assembled
    /\ ActiveFiles = <<P_no, P_x>>
    /\ directories_to_process = <<P_p, P_d>>
    /\ files_to_copy = <<P_no, P_x, join(join(HomeDir, n_p), n_m_rs), join(P_d, n_a_rs)>>
    /\ HeaderPaths(combined_content, FALSE, <<>>)
         = <<P_x, join(join(HomeDir, n_p), n_m_rs), join(P_d, n_a_rs)>>

\* ------------------------------------------------------------------------
\* C8  Selection exclusivity.  Once the selection is made, the explicit
\* entries, the directories and the project of the run are exactly those of
\* the one active selection (the legacy fields without an argument, the
\* named profile with one); every directory walked and every tree rendered
\* belongs to it, and nothing else enters the file list.
C8_SelectionExclusive ==
    Selected =>
        /\ SubSeq(files_to_copy, 1, Len(ActiveFiles)) = ActiveFiles
        /\ Len(files_to_copy) >= Len(ActiveFiles)
        /\ pc = "dirs" /\ dir_idx = 1 => files_to_copy = ActiveFiles
        /\ directories_to_process = ActiveDirectories
        /\ project_config = ActiveProject
        /\ \A i \in 1..Len(walks) :
              \E d \in Range(ActiveDirectories) : walks[i] = expand_tilde(home, d)
        /\ \A i \in 1..Len(tree_calls) :
              /\ IsSome(ActiveProject)
              /\ tree_calls[i][1] = expand_tilde(home, Unwrap(ActiveProject).path)

\* a run under profile p1 of a config whose legacy fields name other files
C8_Witness ==
    /\ pc = "exit_ok"
    /\ GivenProfile
    /\ Unwrap(config).files = Some(<<P_x>>)
    /\ ActiveFiles = <<P_u, P_p, P_rel>>
    /\ ActiveDirectories = <<P_p, P_d>>
    /\ Len(walks) = 2
    /\ Len(tree_calls) = 1

\* ------------------------------------------------------------------------
\* C3  Unknown profile.  When a profile is named that the loaded config does
\* not hold (or the config has no profiles at all), the run walks no
\* directory, starts no tree command, reads no content file and never
\* touches the clipboard, and it ends with exit code 1.
C3_UnknownProfile ==
    (IsSome(config) /\ GivenProfile /\ ~ProfileKnown) =>
        /\ pc \in {"select", "exit_profile_missing", "exit_no_profiles"}
        /\ pc # "select" => exit_code = ExitFail
        /\ walks = <<>>
        /\ tree_calls = <<>>
        /\ file_reads = <<>>
        /\ clip_accesses = 0
        /\ clipboard = None

\* the run ended on a name that the profiles table does not hold
C3_Witness ==
    /\ pc = "exit_profile_missing"
    /\ args = <<"fdllm", "nope">>
    /\ IsSome(Unwrap(config).profiles)
    /\ "p1" \in DOMAIN Unwrap(Unwrap(config).profiles)
    /\ IsSome(Unwrap(Unwrap(config).profiles)["p1"].directories)
    /\ exit_code = ExitFail

\* ------------------------------------------------------------------------
\* C4  Clipboard gating.  The clipboard is accessed at most once, and only
\* with a non-empty file list and a non-empty assembled text, after both
\* checks; a run whose resolved file list is empty, or whose assembled text
\* is empty, ends with exit code 1 and without any clipboard access.
C4_ClipboardGating ==
    /\ clip_accesses <= 1
    /\ pc = "clipboard" \/ clip_accesses > 0 =>
          /\ Assembled
          /\ files_to_copy # <<>>
          /\ combined_content # <<>>
    /\ clipboard # None => clip_accesses = 1 /\ pc = "exit_ok"
    /\ (Terminated /\ Resolved /\ (files_to_copy = <<>> \/ combined_content = <<>>)) =>
          /\ exit_code = ExitFail
          /\ clip_accesses = 0
          /\ clipboard = None

\* a run with files listed, none of them readable, and no tree
C4_Witness ==
    /\ pc = "exit_empty"
    /\ files_to_copy # <<>>
    /\ file_idx > Len(files_to_copy)
    /\ combined_content = <<>>
    /\ clip_accesses = 0

\* ------------------------------------------------------------------------
\* C5  Recoverable failures.

\* something is left to copy: an entry of the resolved list is a readable
\* file, or the project tree renders
TreeRenders ==
    /\ IsSome(project_config)
    /\ exists(fs, expand_tilde(home, Unwrap(project_config).path))
    /\ tree_env = "ok"
SomethingRemains ==
    \/ \E i \in 1..Len(files_to_copy) : ReadableFile(files_to_copy[i])
    \/ TreeRenders
ClipboardWorked == pc \notin {"exit_clip_new", "exit_clip_set"}

\* C5 as specified: whatever is missing, unreadable, filtered out or fails in
\* the tree command, the run (on a working clipboard) ends with the clipboard
\* written and exit code 0 whenever something remains to be copied.
C5_SucceedsIfAnythingRemains ==
    (Terminated /\ Selected /\ ClipboardWorked /\ SomethingRemains) =>
        /\ pc = "exit_ok"
        /\ exit_code = ExitOk
        /\ clipboard = Some(combined_content)

\* C5 amended: no failed item ends the run: every directory and every file is
\* visited, and the run (on a working clipboard) ends with the clipboard
\* written and exit code 0 whenever the resolved file list is non-empty and
\* something remains to be copied.
C5_SucceedsIfFilesAndAnythingRemain ==
    /\ (Terminated /\ Selected) => dir_idx = Len(directories_to_process) + 1
    /\ (Terminated /\ Assembling) => file_idx = Len(files_to_copy) + 1
    /\ (Terminated /\ Selected /\ ClipboardWorked /\ files_to_copy # <<>>
          /\ SomethingRemains) =>
            /\ pc = "exit_ok"
            /\ exit_code = ExitOk
            /\ clipboard = Some(combined_content)
            /\ combined_content # <<>>

\* a run that met a missing file, an unreadable file, a missing directory, a
\* file with a disallowed extension and a failing tree command, and succeeded
C5_Witness ==
    /\ pc = "exit_ok"
    /\ tree_env # "ok"
    /\ Len(tree_calls) = 1
    /\ \E i \in 1..Len(files_to_copy) : files_to_copy[i] = P_no
    /\ \E i \in 1..Len(directories_to_process) : directories_to_process[i] = P_no
    /\ join(WalkRoot, n_b_exe) \in DOMAIN fs
    /\ Len(walks) = 2
    /\ clipboard = Some(combined_content)

\* ------------------------------------------------------------------------
\* C6  Exit codes.

HasSection(path, content) ==
    \E i \in 1..Len(combined_content) :
        StartsAt(combined_content,
                 <<"# NOTE: ">> \o path \o <<":\n">> \o content \o <<"\n">>, i)

\* C10 as specified: once the file loop is over, every file that the walk of a
\* configured directory returned (under a name that is valid UTF-8, `~` or
\* not) and that is a readable regular file has its section in the
\* assembled text.
C10_DiscoveredFilesReachOutput ==
    Assembled =>
        \A k \in 1..Len(directories_to_process) :
            LET dir_path == expand_tilde(home, directories_to_process[k]) IN
            is_dir(fs, dir_path) =>
                \A p \in Range(collect_files_from_directory(fs, dir_path)) :
                    (can_read(fs, p) /\ to_string_lossy(p) = p) =>
                        HasSection(to_string_lossy(p), read_to_string(fs, p))

====
